---- MODULE Spec2Model ----
(***************************************************************************)
(* Model of api/insights.py: the HTTP handler, the insight aggregator      *)
(* get_neighborhood_insights, the geocoder wrapper, the paginated          *)
(* proximity search find_places_nearby, the nearest-of-type search and     *)
(* the composite ranking key.                                              *)
(*                                                                         *)
(* Python values that may be None are tagged tuples: None, Num(n), Str(s), *)
(* List(seq), Dict(function).  Containers whose type the code fixes (the   *)
(* report, its sections, lists of place records) are plain records and     *)
(* sequences; a dict under construction is a function that grows with @@.  *)
(***************************************************************************)
EXTENDS Integers, Sequences, FiniteSets, TLC

\* ------------------------------------------------------------------ values

None == <<"null">>
Num(n) == <<"num", n>>
Str(s) == <<"str", s>>
List(s) == <<"list", s>>
Dict(d) == <<"dict", d>>

EmptyDict == <<>>

IsNone(v) == v[1] = "null"

\* Python truthiness of a tagged value (the `if not x` / `x or y` tests).
Truthy(v) ==
    CASE v[1] = "null" -> FALSE
      [] v[1] = "num"  -> v[2] # 0
      [] v[1] = "str"  -> v[2] # ""
      [] v[1] = "list" -> Len(v[2]) > 0
      [] v[1] = "dict" -> DOMAIN v[2] # {}

\* dict.get(k) and dict.get(k, default) on a dict held as a function.
Get(d, k) == IF k \in DOMAIN d THEN d[k] ELSE None
GetOr(d, k, default) == IF k \in DOMAIN d THEN d[k] ELSE default

\* d[k] = v on a dict held as a function.
SetKey(d, k, v) == (k :> v) @@ d

\* lst[:n]
Take(lst, n) == SubSeq(lst, 1, IF Len(lst) < n THEN Len(lst) ELSE n)

\* ------------------------------------------------------------ configuration

\* default_cfg["top_n"]
TopN == 5

\* The default of find_places_nearby's max_pages parameter.
DefaultMaxPages == 2

\* The default of summarize_list's top parameter, and the value every call passes.
SummaryTop == 3

\* The place types in the order the aggregator searches them.
Categories ==
    <<"cafe", "shopping_mall", "park", "gym",
      "school", "hospital", "pharmacy", "subway_station">>

\* default_cfg["radii"]
Radii ==
    [cafe |-> 1000, school |-> 8000, hospital |-> 5000, pharmacy |-> 2000,
     park |-> 1500, gym |-> 2000, shopping_mall |-> 5000, subway_station |-> 2000]

\* ---------------------------------------------------------- pure functions

\* NormalizePlace with 0 in place of a missing rating or rating count.
NormalizePlaceZeroFills(place) ==
    [name |-> Get(place, "name"),
     rating |-> GetOr(place, "rating", Num(0)),
     user_ratings_total |-> GetOr(place, "user_ratings_total", Num(0)),
     types |-> GetOr(place, "types", List(<<>>))]

\* The dict find_places_nearby builds for one raw provider result.
NormalizePlace(place) ==
    [name |-> Get(place, "name"),
     rating |-> Get(place, "rating"),
     user_ratings_total |-> Get(place, "user_ratings_total"),
     types |-> GetOr(place, "types", List(<<>>))]

\* [NormalizePlace(p) for p in all_places]
NormalizeAll(all_places) == [i \in DOMAIN all_places |-> NormalizePlace(all_places[i])]

\* safe_sort_key: (rating or 0.0, user_ratings_total or 0) with `is not None` tests.
safe_sort_key(x) ==
    <<IF ~IsNone(x.rating) THEN x.rating ELSE Num(0),
      IF ~IsNone(x.user_ratings_total) THEN x.user_ratings_total ELSE Num(0)>>

\* Python's tuple order on two keys of numbers: a > b.
KeyGreater(a, b) ==
    \/ a[1][2] > b[1][2]
    \/ a[1][2] = b[1][2] /\ a[2][2] > b[2][2]

\* sorted() raises TypeError when it has to order a str against a number.  The
\* provider's counts are numbers or absent, so only the ratings can differ in
\* type, and any sort of a list holding both kinds compares one of each.
SortRaises(lst) ==
    \E i, j \in DOMAIN lst :
        safe_sort_key(lst[i])[1][1] # safe_sort_key(lst[j])[1][1]

\* InsertDescending putting x before the elements whose key equals its own,
\* as sorting ascending and reversing the result does.
InsertDescendingTiesReversed(srt, x) ==
    LET before == {i \in DOMAIN srt :
                     KeyGreater(safe_sort_key(srt[i]), safe_sort_key(x))}
        n == Cardinality(before)
    IN  SubSeq(srt, 1, n) \o <<x>> \o SubSeq(srt, n + 1, Len(srt))

\* One step of a stable descending sort: x goes after every element whose key
\* is greater than or equal to its own.
InsertDescending(srt, x) ==
    LET before == {i \in DOMAIN srt :
                     ~KeyGreater(safe_sort_key(x), safe_sort_key(srt[i]))}
        n == Cardinality(before)
    IN  SubSeq(srt, 1, n) \o <<x>> \o SubSeq(srt, n + 1, Len(srt))

RECURSIVE SortedReverse(_)
\* sorted(lst, key=safe_sort_key, reverse=True): stable, descending by key.
SortedReverse(lst) ==
    IF lst = <<>> THEN <<>>
    ELSE InsertDescending(SortedReverse(SubSeq(lst, 1, Len(lst) - 1)), lst[Len(lst)])

\* "shopping_mall" in (m.get("types") or [])
HasMallTag(m) ==
    LET t == IF Truthy(m.types) THEN m.types[2] ELSE <<>>
    IN  \E i \in DOMAIN t : t[i] = "shopping_mall"

\* malls_filtered without the tag filter.
MallsUnfiltered(malls) == malls

\* [m for m in malls if "shopping_mall" in (m.get("types") or [])]
MallsFiltered(malls) == SelectSeq(malls, HasMallTag)

\* summarize_list: the names of the first `top` entries (every entry is a dict
\* with a "name" key, so the default "" is never used).
summarize_list(lst, top) == [i \in DOMAIN Take(lst, top) |-> lst[i].name]

\* hospital_nearest.get("name") if hospital_nearest else None
NearestName(nearest) == IF Truthy(nearest) THEN Get(nearest[2], "name") ELSE None

\* An f-string: the sequence of its literal and interpolated parts.
FStr(parts) == <<"fstr", parts>>

\* Whether the string s is one of the parts of an f-string.
Contains(fs, s) == \E i \in DOMAIN fs[2] : fs[2][i] = s

\* json.dumps: the body is the serialised value, told apart from the value.
Dumps(v) == <<"json", v>>

\* json.loads, for reading a response body back.
Loads(b) == b[2]

\* ------------------------------------------------------------------ bounds

\* Results on one page of the stub provider in an aggregation run.
PageSize == 5

\* Largest max_pages a direct call of find_places_nearby is given.
MaxPageLimit == 3

\* Longest page the provider returns to a direct call of find_places_nearby.
MaxPageLen == 2

\* Longest list given to the ranking on its own.
MaxRankLen == 4

\* ------------------------------------------------- the collaborators' data

\* The raw results the stub places provider serves, as the decoded JSON dicts
\* of gmaps.places_nearby(...)["results"]: keys may be missing or null.
Catalogue ==
    << [name |-> Str("a"), rating |-> Num(4), user_ratings_total |-> Num(10),
        types |-> List(<<"shopping_mall">>)],
       [rating |-> Num(5), types |-> List(<<"lodging">>)],
       [name |-> Str("c"), rating |-> Num(4), user_ratings_total |-> Num(20),
        types |-> List(<<"cafe", "shopping_mall">>)],
       [name |-> Str("d"), rating |-> Num(2), user_ratings_total |-> Num(5),
        types |-> List(<<"store">>)],
       [name |-> Str("e"), rating |-> Num(0), user_ratings_total |-> Num(0),
        types |-> None],
       [name |-> Str("f"), rating |-> Num(4), user_ratings_total |-> Num(10),
        types |-> List(<<"shopping_mall", "store">>)],
       [name |-> Str("g"), rating |-> None, user_ratings_total |-> Num(7),
        types |-> List(<<"shopping_mall">>)],
       [name |-> Str("h"), rating |-> Num(3), user_ratings_total |-> Num(50),
        types |-> List(<<"shopping_mall">>)],
       [name |-> Str("i"), rating |-> Num(5), user_ratings_total |-> Num(2),
        types |-> List(<<"shopping_mall">>)],
       [name |-> Str("b")],
       [name |-> Str("k"), rating |-> Num(3), user_ratings_total |-> Num(50),
        types |-> List(<<"park">>)] >>

\* The position of a place type in the aggregator's order.
CategoryIndex(place_type) == CHOOSE i \in DOMAIN Categories : Categories[i] = place_type

\* The k-th page of results the stub provider serves for a place type: PageSize
\* consecutive catalogue entries, from a start that differs by type.
ProviderPage(place_type, k) ==
    [i \in 1..PageSize |->
        Catalogue[((2 * CategoryIndex(place_type) + (k - 1) * PageSize + i - 1)
                     % Len(Catalogue)) + 1]]

\* A page whose ratings are of mixed JSON types (a string beside a number).
OddPage ==
    << [name |-> Str("x"), rating |-> Str("4.5"), types |-> List(<<"shopping_mall">>)],
       Catalogue[1] >>

\* The continuation token the stub provider issues with its k-th page.
TokenOf(k) == Str(IF k = 1 THEN "tok1" ELSE IF k = 2 THEN "tok2" ELSE "tok3")

\* What one proximity query of an aggregation run can come back with: an
\* exception, or a response dict with or without a continuation token.
AggregationOutcomes(place_type, k) ==
    {<<"raise">>}
    \cup {<<"ok", [results |-> ProviderPage(place_type, k)]>>,
          <<"ok", [results |-> ProviderPage(place_type, k),
                   next_page_token |-> TokenOf(k)]>>}
    \cup (IF k = 1 THEN {<<"ok", [results |-> OddPage]>>} ELSE {})

\* The raw places a direct call's provider draws its pages from.
SearchPlaces == {Catalogue[1], Catalogue[10]}

\* Sequences over a set, up to a length.
SeqUpTo(S, n) == UNION {[1..m -> S] : m \in 0..n}

\* What one proximity query of a direct call can come back with: an exception,
\* a response without "results", or any short page with or without a token.
DirectOutcomes ==
    {<<"raise">>}
    \cup {<<"ok", EmptyDict>>, <<"ok", [next_page_token |-> TokenOf(1)]>>}
    \cup {<<"ok", [results |-> pg]>> : pg \in SeqUpTo(SearchPlaces, MaxPageLen)}
    \cup {<<"ok", [results |-> pg, next_page_token |-> t]>> :
            pg \in SeqUpTo(SearchPlaces, MaxPageLen), t \in {TokenOf(1), TokenOf(2)}}

\* What the distance-ranked query can come back with.
NearestOutcomes(place_type) ==
    {<<"raise">>, <<"ok", EmptyDict>>, <<"ok", [results |-> <<>>]>>,
     <<"ok", [results |-> ProviderPage(place_type, 1)]>>}

\* An address in a sparsely built area: the provider knows one place of each
\* type around it.
SparseAddress == Str("addr3")

\* The addresses the stub geocoder can resolve.
Resolvable == {Str("addr1"), SparseAddress}

\* The geocoder's result for an address it can resolve.
GeocodeResult(addr) ==
    IF addr = SparseAddress
    THEN [geometry |-> [location |-> [lat |-> 41, lng |-> 29]],
          formatted_address |-> Str("formatted addr3")]
    ELSE [geometry |-> [location |-> [lat |-> 37, lng |-> -122]],
          formatted_address |-> Str("formatted addr1")]

\* What gmaps.geocode can come back with for an address: an exception, no
\* result, or (for an address it can resolve) one result.
GeocodeOutcomes(addr) ==
    {<<"raise">>, <<"ok", <<>>>>}
    \cup (IF addr \in Resolvable THEN {<<"ok", <<GeocodeResult(addr)>>>>} ELSE {})

\* The k-th page the stub provider serves for a place type around the sparse
\* address: one place on the first page, none after it.
SparsePage(place_type, k) ==
    IF k = 1 THEN <<Catalogue[CategoryIndex(place_type)]>> ELSE <<>>

\* What one proximity query can come back with around the sparse address.
SparseOutcomes(place_type, k) ==
    {<<"raise">>}
    \cup {<<"ok", [results |-> SparsePage(place_type, k)]>>}
    \cup (IF k = 1
          THEN {<<"ok", [results |-> SparsePage(place_type, k),
                         next_page_token |-> TokenOf(k)]>>,
                <<"ok", [results |-> OddPage]>>}
          ELSE {})

\* googlemaps.Client(key=...) raises ValueError unless the key has the
\* provider's prefix.
ValidKey == Str("AIza-key")
InvalidKey == Str("not-a-key")
ClientRaises(api_key) == api_key # ValidKey

\* The requests: the method, the credential in the environment, and what
\* request.get_json() does (raises, or returns the parsed body).
Methods == {"OPTIONS", "GET", "POST"}
EnvKeys == {None, Str(""), InvalidKey, ValidKey}
Addresses == {Str("addr1"), Str("addr2")}
Bodies ==
    {<<"raise">>, <<"ok", None>>, <<"ok", Dict(EmptyDict)>>,
     <<"ok", Dict([address |-> None])>>, <<"ok", Dict([address |-> Str("")])>>}
    \cup {<<"ok", Dict([address |-> a])>> : a \in Addresses}
Requests == [method : Methods, env_key : EnvKeys, json : Bodies]

\* ------------------------------------------------------------------- state

VARIABLES
    pc,             \* where the run is
    request,        \* the inbound request
    response,       \* what handler returned (None while it runs)
    exc,            \* the exception on its way to handler's except clause
    address,        \* handler's address
    api_key,        \* handler's api_key
    result,         \* what get_neighborhood_insights returned
    geo,            \* get_neighborhood_insights' geo
    insights,       \* the report under construction
    locals,         \* the aggregator's lists and nearest results, by name
    cat,            \* index of the category being collected (0: none)
    fp,             \* find_places_nearby's frame (None outside a call)
    ret,            \* what the last find_places_nearby call returned
    nearest,        \* what the last find_nearest_place call returned
    np,             \* find_nearest_place's frame (None outside a call)
    geocode_calls,  \* gmaps.geocode calls made
    searches,       \* find_places_nearby calls made by the aggregator, by place type
    nearest_calls,  \* find_nearest_place calls made, by place type
    raised,         \* place types whose proximity search caught an exception
    served          \* per provider query of the latest search: what it came back with

vars ==
    <<pc, request, response, exc, address, api_key, result, geo, insights,
      locals, cat, fp, ret, nearest, np, geocode_calls, searches, nearest_calls,
      raised, served>>

NoCalls == [t \in {Categories[i] : i \in DOMAIN Categories} |-> 0]

\* The state before a request is handled.
Init ==
    /\ pc = "h_start"
    /\ request \in Requests
    /\ response = None
    /\ exc = None
    /\ address = None
    /\ api_key = None
    /\ result = None
    /\ geo = None
    /\ insights = EmptyDict
    /\ locals = EmptyDict
    /\ cat = 0
    /\ fp = None
    /\ ret = <<>>
    /\ nearest = None
    /\ np = None
    /\ geocode_calls = 0
    /\ searches = NoCalls
    /\ nearest_calls = NoCalls
    /\ raised = {}
    /\ served = <<>>

\* ----------------------------------------------------------------- handler

\* A handler response: the status code and the serialised body (the CORS and
\* content-type headers are the same on every path and are left out).
Response(status, body) == [statusCode |-> status, body |-> Dumps(body)]

AggregationVars ==
    <<result, geo, insights, locals, cat, fp, ret, nearest, np, geocode_calls,
      searches, nearest_calls, raised, served>>

\* handler returns `resp`.
HandlerReturns(resp) ==
    /\ response' = resp
    /\ pc' = "done"

\* `api_key is None` in place of `not api_key`.
KeyMissingOnlyNone(key) == IsNone(key)

\* `not api_key`
KeyMissing(key) == ~Truthy(key)

\* `not address`
AddressMissing(addr) == ~Truthy(addr)

\* request.method == "OPTIONS": the pre-flight acknowledgement.
HandlerOptions ==
    /\ pc = "h_start"
    /\ request.method = "OPTIONS"
    /\ HandlerReturns(Response(200, [ok |-> TRUE]))
    /\ UNCHANGED <<request, exc, address, api_key>>
    /\ UNCHANGED AggregationVars

\* request.method != "POST"
HandlerMethodNotAllowed ==
    /\ pc = "h_start"
    /\ request.method # "OPTIONS"
    /\ request.method # "POST"
    /\ HandlerReturns(Response(405,
            [ok |-> FALSE, error |-> Str("Method not allowed. Use POST.")]))
    /\ UNCHANGED <<request, exc, address, api_key>>
    /\ UNCHANGED AggregationVars

\* A POST without the credential in the environment.
HandlerNoKey ==
    /\ pc = "h_start"
    /\ request.method = "POST"
    /\ KeyMissing(request.env_key)
    /\ api_key' = request.env_key
    /\ HandlerReturns(Response(500,
            [ok |-> FALSE, error |-> Str("GOOGLE_MAPS_API_KEY not set")]))
    /\ UNCHANGED <<request, exc, address>>
    /\ UNCHANGED AggregationVars

\* request.get_json() raises: the inner except clause answers.
HandlerInvalidJson ==
    /\ pc = "h_start"
    /\ request.method = "POST"
    /\ ~KeyMissing(request.env_key)
    /\ request.json[1] = "raise"
    /\ api_key' = request.env_key
    /\ HandlerReturns(Response(400, [ok |-> FALSE, error |-> Str("Invalid JSON")]))
    /\ UNCHANGED <<request, exc, address>>
    /\ UNCHANGED AggregationVars

\* data.get("address") on a parsed body that is None raises AttributeError,
\* which only the outer except clause catches.
HandlerBodyNotDict ==
    /\ pc = "h_start"
    /\ request.method = "POST"
    /\ ~KeyMissing(request.env_key)
    /\ request.json[1] = "ok"
    /\ request.json[2][1] # "dict"
    /\ api_key' = request.env_key
    /\ exc' = Str("'NoneType' object has no attribute 'get'")
    /\ pc' = "h_except"
    /\ UNCHANGED <<request, response, address>>
    /\ UNCHANGED AggregationVars

\* The parsed body is a dict without a usable address.
HandlerNoAddress ==
    /\ pc = "h_start"
    /\ request.method = "POST"
    /\ ~KeyMissing(request.env_key)
    /\ request.json[1] = "ok"
    /\ request.json[2][1] = "dict"
    /\ AddressMissing(Get(request.json[2][2], "address"))
    /\ api_key' = request.env_key
    /\ address' = Get(request.json[2][2], "address")
    /\ HandlerReturns(Response(400,
            [ok |-> FALSE, error |-> Str("Address is required")]))
    /\ UNCHANGED <<request, exc>>
    /\ UNCHANGED AggregationVars

\* The request is valid: handler calls get_neighborhood_insights(address, api_key).
HandlerCallsInsights ==
    /\ pc = "h_start"
    /\ request.method = "POST"
    /\ ~KeyMissing(request.env_key)
    /\ request.json[1] = "ok"
    /\ request.json[2][1] = "dict"
    /\ ~AddressMissing(Get(request.json[2][2], "address"))
    /\ api_key' = request.env_key
    /\ address' = Get(request.json[2][2], "address")
    /\ pc' = "gi_client"
    /\ UNCHANGED <<request, response, exc>>
    /\ UNCHANGED AggregationVars

\* HandlerReturnsResult answering 400 when the result says ok = false.
HandlerReturnsResultStatusByOk ==
    /\ pc = "h_dump"
    /\ HandlerReturns(Response(IF result.ok THEN 200 ELSE 400, result))
    /\ UNCHANGED <<request, exc, address, api_key>>
    /\ UNCHANGED AggregationVars

\* get_neighborhood_insights returned: the result is serialised into a 200.
HandlerReturnsResult ==
    /\ pc = "h_dump"
    /\ HandlerReturns(Response(200, result))
    /\ UNCHANGED <<request, exc, address, api_key>>
    /\ UNCHANGED AggregationVars

\* HandlerExcept with a fixed message in place of str(e).
HandlerExceptGeneric ==
    /\ pc = "h_except"
    /\ HandlerReturns(Response(500, [ok |-> FALSE, error |-> Str("Internal server error")]))
    /\ UNCHANGED <<request, exc, address, api_key>>
    /\ UNCHANGED AggregationVars

\* The outer except clause: the exception's message in a 500.
HandlerExcept ==
    /\ pc = "h_except"
    /\ HandlerReturns(Response(500, [ok |-> FALSE, error |-> exc]))
    /\ UNCHANGED <<request, exc, address, api_key>>
    /\ UNCHANGED AggregationVars

\* ------------------------------------------------ get_neighborhood_insights

HandlerVars == <<request, response, address, api_key>>

\* The structured failure get_neighborhood_insights returns.
Failure(message, addr) == [ok |-> FALSE, error |-> message, query |-> addr]

\* googlemaps.Client(key=api_key): a ValueError is caught and reported.
GiClient ==
    /\ pc = "gi_client"
    /\ IF ClientRaises(api_key)
       THEN /\ result' = Failure(FStr(<<"Failed to initialize Google Maps client: ",
                                        "Invalid API key provided.">>), address)
            /\ pc' = "h_dump"
       ELSE /\ pc' = "gi_geocode"
            /\ UNCHANGED result
    /\ UNCHANGED HandlerVars
    /\ UNCHANGED <<exc, geo, insights, locals, cat, fp, ret, nearest, np,
                   geocode_calls, searches, nearest_calls, raised, served>>

\* geocode_address with a default location where the geocoder has no result.
geocode_addressDefaultsOnEmpty(outcome) ==
    IF outcome[1] = "raise" THEN None
    ELSE Dict([lat |-> 0, lng |-> 0,
               formatted_address |-> Str("unknown"), source |-> Str("google")])

\* geocode_address, given what gmaps.geocode came back with: the first
\* result's coordinates and formatted address, or None (also on an exception).
geocode_address(outcome) ==
    IF outcome[1] = "raise" THEN None
    ELSE IF Len(outcome[2]) > 0
         THEN Dict([lat |-> outcome[2][1].geometry.location.lat,
                    lng |-> outcome[2][1].geometry.location.lng,
                    formatted_address |-> outcome[2][1].formatted_address,
                    source |-> Str("google")])
         ELSE None

\* The report as it is first built, before any section is filled in.
InitialInsights(addr, g) ==
    [ok |-> TRUE,
     query |-> addr,
     address |-> g.formatted_address,
     coordinates |-> [lat |-> g.lat, lng |-> g.lng],
     source |-> GetOr(g, "source", Str("google")),
     social_life |-> EmptyDict,
     family_life |-> EmptyDict,
     transport |-> EmptyDict,
     summary |-> EmptyDict]

\* geo = geocode_address(...); `if not geo` returns the failure, otherwise the
\* report is set up and the collection starts.
GiGeocode ==
    /\ pc = "gi_geocode"
    /\ \E outcome \in GeocodeOutcomes(address) :
         LET g == geocode_address(outcome) IN
         /\ geocode_calls' = geocode_calls + 1
         /\ geo' = g
         /\ IF ~Truthy(g)
            THEN /\ result' = Failure(FStr(<<"Could not geocode the address: ",
                                             address[2]>>), address)
                 /\ pc' = "h_dump"
                 /\ UNCHANGED <<insights, cat>>
            ELSE /\ insights' = InitialInsights(address, g[2])
                 /\ cat' = 1
                 /\ pc' = "gi_search"
                 /\ UNCHANGED result
    /\ UNCHANGED HandlerVars
    /\ UNCHANGED <<exc, locals, fp, ret, nearest, np, searches, nearest_calls,
                   raised, served>>

\* The frame of a find_places_nearby call.
Frame(place_type, radius, max_pages, caller) ==
    [place_type |-> place_type, radius |-> radius, max_pages |-> max_pages,
     all_places |-> <<>>, response |-> EmptyDict, pages |-> 0,
     page_token |-> None, delayed |-> FALSE, caller |-> caller]

\* find_places_nearby(lat, lng, <type>, gmaps, radius=radii[<type>]) is called
\* for the category at hand.
GiSearch ==
    /\ pc = "gi_search"
    /\ fp' = Frame(Categories[cat], Radii[Categories[cat]], DefaultMaxPages,
                   "aggregator")
    /\ searches' = [searches EXCEPT ![Categories[cat]] = @ + 1]
    /\ served' = <<>>
    /\ pc' = "fp_first"
    /\ UNCHANGED HandlerVars
    /\ UNCHANGED <<exc, result, geo, insights, locals, cat, ret, nearest, np,
                   geocode_calls, nearest_calls, raised>>

\* ------------------------------------------------------ find_places_nearby

\* HasNearest with the subway's nearest-of-type search left out.
HasNearestHospitalOnly(place_type) == place_type = "hospital"

\* The place types that also get a nearest-of-type search.
HasNearest(place_type) == place_type \in {"hospital", "subway_station"}

\* What the provider can answer to the next query of the call under way.
QueryOutcomes ==
    IF fp.caller = "aggregator"
    THEN IF geo[2].formatted_address = GeocodeResult(SparseAddress).formatted_address
         THEN SparseOutcomes(fp.place_type, fp.pages + 1)
         ELSE AggregationOutcomes(fp.place_type, fp.pages + 1)
    ELSE DirectOutcomes

\* find_places_nearby returns `places` to its caller.
FpReturn(places) ==
    /\ ret' = places
    /\ fp' = [place_type |-> fp.place_type, max_pages |-> fp.max_pages,
              caller |-> fp.caller]
    /\ pc' = IF fp.caller = "aggregator"
             THEN IF HasNearest(fp.place_type) THEN "gi_nearest" ELSE "gi_build"
             ELSE "fp_done"

\* The while condition without the page cap.
MorePagesUncapped(resp, pages, max_pages) == "next_page_token" \in DOMAIN resp

\* The while condition: "next_page_token" in response and pages < max_pages.
MorePages(resp, pages, max_pages) ==
    "next_page_token" \in DOMAIN resp /\ pages < max_pages

\* FpExcept without its handler: the provider's exception leaves the search.
FpExceptReraises ==
    /\ raised' = raised \cup {fp.place_type}
    /\ exc' = Str("provider error")
    /\ pc' = "h_except"
    /\ UNCHANGED <<ret, fp>>

\* FpExcept returning the pages fetched before the error.
FpExceptReturnsPartial ==
    /\ raised' = raised \cup {fp.place_type}
    /\ FpReturn(NormalizeAll(fp.all_places))
    /\ UNCHANGED exc

\* FpExcept retrying: the search is started again after a provider error.
FpExceptRetries ==
    /\ raised' = raised \cup {fp.place_type}
    /\ fp' = Frame(fp.place_type, fp.radius, fp.max_pages, fp.caller)
    /\ pc' = "fp_first"
    /\ UNCHANGED <<ret, exc>>

\* The except clause of find_places_nearby: the error is logged and [] returned.
FpExcept ==
    /\ raised' = raised \cup {fp.place_type}
    /\ FpReturn(<<>>)
    /\ UNCHANGED exc

\* FpHandle putting each new page in front of the pages fetched before it.
FpHandlePrepends(outcome) ==
    IF outcome[1] = "raise"
    THEN /\ served' = Append(served, <<"raise">>)
         /\ FpExcept
    ELSE LET resp == outcome[2]
             all_places == GetOr(resp, "results", <<>>) \o fp.all_places
             pages == fp.pages + 1
         IN  /\ served' = Append(served, <<"page", GetOr(resp, "results", <<>>)>>)
             /\ UNCHANGED <<raised, exc>>
             /\ IF MorePages(resp, pages, fp.max_pages)
                THEN /\ fp' = [fp EXCEPT !.all_places = all_places,
                                         !.response = resp,
                                         !.pages = pages,
                                         !.delayed = FALSE]
                     /\ pc' = "fp_sleep"
                     /\ UNCHANGED ret
                ELSE FpReturn(NormalizeAll(all_places))

\* A provider query of the call under way came back with `outcome`.  An
\* exception goes to the except clause; a response is added to all_places and
\* the loop condition decides between another page (after the delay) and
\* normalising and returning what was accumulated.
FpHandle(outcome) ==
    IF outcome[1] = "raise"
    THEN /\ served' = Append(served, <<"raise">>)
         /\ FpExcept
    ELSE LET resp == outcome[2]
             all_places == fp.all_places \o GetOr(resp, "results", <<>>)
             pages == fp.pages + 1
         IN  /\ served' = Append(served, <<"page", GetOr(resp, "results", <<>>)>>)
             /\ UNCHANGED <<raised, exc>>
             /\ IF MorePages(resp, pages, fp.max_pages)
                THEN /\ fp' = [fp EXCEPT !.all_places = all_places,
                                         !.response = resp,
                                         !.pages = pages,
                                         !.delayed = FALSE]
                     /\ pc' = "fp_sleep"
                     /\ UNCHANGED ret
                ELSE FpReturn(NormalizeAll(all_places))

FpFrameVars ==
    <<result, geo, insights, locals, cat, nearest, np, geocode_calls,
      searches, nearest_calls>>

\* The initial query: gmaps.places_nearby(location, radius, type).
FpFirstQuery ==
    /\ pc = "fp_first"
    /\ \E outcome \in QueryOutcomes : FpHandle(outcome)
    /\ UNCHANGED HandlerVars
    /\ UNCHANGED FpFrameVars

\* time.sleep(2) before the continuation token is used.
FpSleep ==
    /\ pc = "fp_sleep"
    /\ fp' = [fp EXCEPT !.delayed = TRUE,
                        !.page_token = fp.response["next_page_token"]]
    /\ pc' = "fp_next"
    /\ UNCHANGED HandlerVars
    /\ UNCHANGED FpFrameVars
    /\ UNCHANGED <<ret, raised, served, exc>>

\* The follow-up query, with page_token=response["next_page_token"].
FpNextQuery ==
    /\ pc = "fp_next"
    /\ \E outcome \in QueryOutcomes : FpHandle(outcome)
    /\ UNCHANGED HandlerVars
    /\ UNCHANGED FpFrameVars

\* ------------------------------------------------------ find_nearest_place

\* find_nearest_place taking the last result of the response.
find_nearest_placeTakesLast(outcome) ==
    IF outcome[1] = "raise" THEN None
    ELSE LET results == GetOr(outcome[2], "results", <<>>)
         IN  IF Len(results) > 0
             THEN Dict([name |-> Get(results[Len(results)], "name"),
                        rating |-> Get(results[Len(results)], "rating")])
             ELSE None

\* find_nearest_place, given what the rank_by="distance" query came back with:
\* the name and rating of the first result, or None (also on an exception).
find_nearest_place(outcome) ==
    IF outcome[1] = "raise" THEN None
    ELSE LET results == GetOr(outcome[2], "results", <<>>)
         IN  IF Len(results) > 0
             THEN Dict([name |-> Get(results[1], "name"),
                        rating |-> Get(results[1], "rating")])
             ELSE None

\* find_nearest_place(lat, lng, <type>, gmaps) is called for the category at
\* hand and issues its query, gmaps.places_nearby(..., rank_by="distance"),
\* which comes back with a response or an exception.
GiNearest ==
    /\ pc = "gi_nearest"
    /\ \E outcome \in NearestOutcomes(Categories[cat]) :
         np' = Dict([place_type |-> Categories[cat], response |-> outcome])
    /\ nearest_calls' = [nearest_calls EXCEPT ![Categories[cat]] = @ + 1]
    /\ pc' = "np_return"
    /\ UNCHANGED HandlerVars
    /\ UNCHANGED <<exc, result, geo, insights, locals, cat, fp, ret, nearest,
                   geocode_calls, searches, raised, served>>

\* find_nearest_place returns: hospital_nearest / metro_nearest is assigned.
NpReturn ==
    /\ pc = "np_return"
    /\ nearest' = find_nearest_place(np[2].response)
    /\ np' = None
    /\ pc' = "gi_build"
    /\ UNCHANGED HandlerVars
    /\ UNCHANGED <<exc, result, geo, insights, locals, cat, fp, ret,
                   geocode_calls, searches, nearest_calls, raised, served>>

\* ------------------------------------------------------------ the sections

\* RankedSection counting the truncated list: len(x_sorted[:top_n]).
RankedSectionCountsTop(places) ==
    [count |-> Len(Take(SortedReverse(places), TopN)),
     top |-> Take(SortedReverse(places), TopN)]

\* {"count": len(x), "top": x_sorted[:top_n]} of cafes, parks, gyms and schools.
RankedSection(places) ==
    [count |-> Len(places), top |-> Take(SortedReverse(places), TopN)]

\* The shopping_malls section: filtered by tag, then ranked.
MallSection(malls) ==
    [count |-> Len(MallsFiltered(malls)),
     top |-> Take(SortedReverse(MallsFiltered(malls)), TopN)]

\* The hospitals section: ranked, with the nearest hospital's name.
HospitalSection(hospitals, hospital_nearest) ==
    [count |-> Len(hospitals),
     nearest |-> NearestName(hospital_nearest),
     top |-> Take(SortedReverse(hospitals), TopN)]

\* PharmacySection ranking its list like the ranked sections do (where
\* sorted() can order it).
PharmacySectionRanked(pharmacies) ==
    [count |-> Len(pharmacies),
     top |-> Take(IF SortRaises(pharmacies) THEN pharmacies
                  ELSE SortedReverse(pharmacies), TopN)]

\* The pharmacies section: provider order.
PharmacySection(pharmacies) ==
    [count |-> Len(pharmacies), top |-> Take(pharmacies, TopN)]

\* The subway section: provider order, under "alternatives".
SubwaySection(metros, metro_nearest) ==
    [count |-> Len(metros),
     nearest |-> NearestName(metro_nearest),
     alternatives |-> Take(metros, TopN)]

\* The section built for a place type from its search result.
SectionOf(place_type, places, near) ==
    CASE place_type = "shopping_mall"  -> MallSection(places)
      [] place_type = "hospital"       -> HospitalSection(places, near)
      [] place_type = "pharmacy"       -> PharmacySection(places)
      [] place_type = "subway_station" -> SubwaySection(places, near)
      [] OTHER                         -> RankedSection(places)

\* insights[<group>][<key>]: where a place type's section goes.
GroupOf(place_type) ==
    CASE place_type \in {"cafe", "shopping_mall", "park", "gym"} -> "social_life"
      [] place_type \in {"school", "hospital", "pharmacy"}       -> "family_life"
      [] OTHER                                                    -> "transport"

SectionKey(place_type) ==
    CASE place_type = "cafe"           -> "cafes"
      [] place_type = "shopping_mall"  -> "shopping_malls"
      [] place_type = "park"           -> "parks"
      [] place_type = "gym"            -> "gyms"
      [] place_type = "school"         -> "schools"
      [] place_type = "hospital"       -> "hospitals"
      [] place_type = "pharmacy"       -> "pharmacies"
      [] OTHER                         -> "subway"

\* The list a place type's stanza hands to sorted(): none for pharmacies and
\* subway stations, the filtered list for malls.
SortInput(place_type, places) ==
    CASE place_type \in {"pharmacy", "subway_station"} -> <<>>
      [] place_type = "shopping_mall"                   -> MallsFiltered(places)
      [] OTHER                                          -> places

\* The local variables a stanza leaves behind for the summary.
LocalsAfter(loc, place_type, places, near) ==
    CASE place_type = "cafe" ->
            SetKey(SetKey(loc, "cafes", places), "cafes_sorted", SortedReverse(places))
      [] place_type = "shopping_mall" ->
            SetKey(SetKey(loc, "malls_filtered", MallsFiltered(places)),
                   "malls_sorted", SortedReverse(MallsFiltered(places)))
      [] place_type = "park" -> SetKey(loc, "parks", places)
      [] place_type = "gym" -> SetKey(loc, "gyms", places)
      [] place_type = "school" ->
            SetKey(SetKey(loc, "schools", places), "schools_sorted", SortedReverse(places))
      [] place_type = "hospital" ->
            SetKey(SetKey(loc, "hospitals", places), "hospital_nearest", near)
      [] place_type = "pharmacy" -> loc
      [] OTHER -> SetKey(loc, "metro_nearest", near)

\* The rest of a category's stanza after its searches returned: filter, sort,
\* store the section, and go on to the next category or to the summary.
GiBuild ==
    /\ pc = "gi_build"
    /\ ~SortRaises(SortInput(Categories[cat], ret))
    /\ insights' =
         [insights EXCEPT ![GroupOf(Categories[cat])] =
            SetKey(@, SectionKey(Categories[cat]),
                   SectionOf(Categories[cat], ret, nearest))]
    /\ locals' = LocalsAfter(locals, Categories[cat], ret, nearest)
    /\ cat' = cat + 1
    /\ pc' = IF cat < Len(Categories) THEN "gi_search" ELSE "gi_summary"
    /\ UNCHANGED HandlerVars
    /\ UNCHANGED <<exc, result, geo, fp, ret, nearest, np, geocode_calls, searches,
                   nearest_calls, raised, served>>

\* str(e) of the TypeError sorted() raises.
TypeErrorMessage == Str("'<' not supported between instances of 'str' and 'float'")

\* sorted() raises TypeError on keys of mixed types: nothing in
\* get_neighborhood_insights catches it, so it reaches handler's except clause.
GiSortRaises ==
    /\ pc = "gi_build"
    /\ SortRaises(SortInput(Categories[cat], ret))
    /\ exc' = TypeErrorMessage
    /\ pc' = "h_except"
    /\ UNCHANGED HandlerVars
    /\ UNCHANGED <<result, geo, insights, locals, cat, fp, ret, nearest, np,
                   geocode_calls, searches, nearest_calls, raised, served>>

\* ------------------------------------------------------------- the summary

\* Headline counting the entries listed (at most top_n) for each category.
HeadlineCountsListed(formatted, loc) ==
    FStr(<<formatted[2], ": ",
           ToString(Len(Take(loc["cafes"], TopN))), " cafes, ",
           ToString(Len(Take(loc["parks"], TopN))), " parks, ",
           ToString(Len(Take(loc["gyms"], TopN))), " gyms, ",
           ToString(Len(Take(loc["schools"], TopN))), " schools, ",
           ToString(Len(Take(loc["hospitals"], TopN))), " hospitals, ",
           ToString(Len(Take(loc["malls_filtered"], TopN))), " malls nearby.">>)

\* The headline f-string: the formatted address and six raw counts.
Headline(formatted, loc) ==
    FStr(<<formatted[2], ": ",
           ToString(Len(loc["cafes"])), " cafes, ",
           ToString(Len(loc["parks"])), " parks, ",
           ToString(Len(loc["gyms"])), " gyms, ",
           ToString(Len(loc["schools"])), " schools, ",
           ToString(Len(loc["hospitals"])), " hospitals, ",
           ToString(Len(loc["malls_filtered"])), " malls nearby.">>)

\* Summary taking the highlights from the lists as they were searched.
SummaryOfUnranked(formatted, loc) ==
    [headline |-> Headline(formatted, loc),
     highlights |->
        [cafes_top |-> summarize_list(loc["cafes"], SummaryTop),
         schools_top |-> summarize_list(loc["schools"], SummaryTop),
         malls_top |-> summarize_list(loc["malls_filtered"], SummaryTop),
         nearest_hospital |-> NearestName(loc["hospital_nearest"]),
         nearest_subway |-> NearestName(loc["metro_nearest"])]]

\* insights["summary"]
Summary(formatted, loc) ==
    [headline |-> Headline(formatted, loc),
     highlights |->
        [cafes_top |-> summarize_list(loc["cafes_sorted"], SummaryTop),
         schools_top |-> summarize_list(loc["schools_sorted"], SummaryTop),
         malls_top |-> summarize_list(loc["malls_sorted"], SummaryTop),
         nearest_hospital |-> NearestName(loc["hospital_nearest"]),
         nearest_subway |-> NearestName(loc["metro_nearest"])]]

\* The summary is stored and the report returned to handler.
GiSummary ==
    /\ pc = "gi_summary"
    /\ insights' = [insights EXCEPT !.summary = Summary(geo[2].formatted_address, locals)]
    /\ result' = insights'
    /\ pc' = "h_dump"
    /\ UNCHANGED HandlerVars
    /\ UNCHANGED <<exc, geo, locals, cat, fp, ret, nearest, np, geocode_calls,
                   searches, nearest_calls, raised, served>>

\* ------------------------------------------------------- the specification

Next ==
    \/ HandlerOptions
    \/ HandlerMethodNotAllowed
    \/ HandlerNoKey
    \/ HandlerInvalidJson
    \/ HandlerBodyNotDict
    \/ HandlerNoAddress
    \/ HandlerCallsInsights
    \/ GiClient
    \/ GiGeocode
    \/ GiSearch
    \/ FpFirstQuery
    \/ FpSleep
    \/ FpNextQuery
    \/ GiNearest
    \/ NpReturn
    \/ GiBuild
    \/ GiSortRaises
    \/ GiSummary
    \/ HandlerReturnsResult
    \/ HandlerExcept

Spec == Init /\ [][Next]_vars

\* The requests whose address, when there is one, is the sparse address.
SparseRequests ==
    [method : Methods, env_key : EnvKeys,
     json : (Bodies \ {<<"ok", Dict([address |-> a])>> : a \in Addresses})
              \cup {<<"ok", Dict([address |-> SparseAddress])>>}]

\* The state before one of the sparse requests is handled.
InitLive ==
    /\ pc = "h_start"
    /\ request \in SparseRequests
    /\ response = None
    /\ exc = None
    /\ address = None
    /\ api_key = None
    /\ result = None
    /\ geo = None
    /\ insights = EmptyDict
    /\ locals = EmptyDict
    /\ cat = 0
    /\ fp = None
    /\ ret = <<>>
    /\ nearest = None
    /\ np = None
    /\ geocode_calls = 0
    /\ searches = NoCalls
    /\ nearest_calls = NoCalls
    /\ raised = {}
    /\ served = <<>>

\* The run of one request where every call returns or raises: the code is
\* sequential and nothing suspends it, so a step that can be taken is taken.
SpecLive == InitLive /\ [][Next]_vars /\ WF_vars(Next)

\* ----------------------------------- find_places_nearby called on its own

\* The state at a direct call find_places_nearby(lat, lng, type, gmaps,
\* radius, max_pages) with any page limit from 1 to MaxPageLimit.
InitSearch ==
    /\ pc = "fp_first"
    /\ request \in {[method |-> "POST", env_key |-> ValidKey, json |-> <<"raise">>]}
    /\ response = None
    /\ exc = None
    /\ address = None
    /\ api_key = None
    /\ result = None
    /\ geo = None
    /\ insights = EmptyDict
    /\ locals = EmptyDict
    /\ cat = 0
    /\ \E place_type \in {"cafe", "pharmacy"}, max_pages \in 1..MaxPageLimit :
         fp = Frame(place_type, Radii[place_type], max_pages, "direct")
    /\ ret = <<>>
    /\ nearest = None
    /\ np = None
    /\ geocode_calls = 0
    /\ searches = NoCalls
    /\ nearest_calls = NoCalls
    /\ raised = {}
    /\ served = <<>>

NextSearch ==
    \/ FpFirstQuery
    \/ FpSleep
    \/ FpNextQuery

SpecSearch == InitSearch /\ [][NextSearch]_vars

\* ------------------------------------------------- the ranking on its own

\* The normalised records the ranking is tried on: equal keys under different
\* names, absent ratings and counts, and a zero rating.
RankPlaces ==
    {NormalizePlace(Catalogue[i]) : i \in {1, 3, 5, 6, 7, 10}}

\* The state before a list is ranked: any list of up to MaxRankLen records.
InitRank ==
    /\ pc = "rank_start"
    /\ request \in {[method |-> "POST", env_key |-> ValidKey, json |-> <<"raise">>]}
    /\ response = None
    /\ exc = None
    /\ address = None
    /\ api_key = None
    /\ result = None
    /\ geo = None
    /\ insights = EmptyDict
    /\ locals = EmptyDict
    /\ cat = 0
    /\ fp = None
    /\ ret \in SeqUpTo(RankPlaces, MaxRankLen)
    /\ nearest = None
    /\ np = None
    /\ geocode_calls = 0
    /\ searches = NoCalls
    /\ nearest_calls = NoCalls
    /\ raised = {}
    /\ served = <<>>

\* x_sorted = sorted(x, key=safe_sort_key, reverse=True)
Rank ==
    /\ pc = "rank_start"
    /\ locals' = SetKey(locals, "sorted", SortedReverse(ret))
    /\ pc' = "rank_done"
    /\ UNCHANGED HandlerVars
    /\ UNCHANGED <<exc, result, geo, insights, cat, fp, ret, nearest, np,
                   geocode_calls, searches, nearest_calls, raised, served>>

NextRank == Rank

SpecRank == InitRank /\ [][NextRank]_vars

\* ---------------------------------------------------------------- claims

PlaceTypes == {Categories[i] : i \in DOMAIN Categories}

\* Where the report holds a place type's section: <<group, key>>.
SectionPath(t) ==
    CASE t = "cafe"           -> <<"social_life", "cafes">>
      [] t = "shopping_mall"  -> <<"social_life", "shopping_malls">>
      [] t = "park"           -> <<"social_life", "parks">>
      [] t = "gym"            -> <<"social_life", "gyms">>
      [] t = "school"         -> <<"family_life", "schools">>
      [] t = "hospital"       -> <<"family_life", "hospitals">>
      [] t = "pharmacy"       -> <<"family_life", "pharmacies">>
      [] t = "subway_station" -> <<"transport", "subway">>

\* The report holds a section for the place type.
Stored(t) ==
    /\ SectionPath(t)[1] \in DOMAIN insights
    /\ SectionPath(t)[2] \in DOMAIN insights[SectionPath(t)[1]]

SectionAt(t) == insights[SectionPath(t)[1]][SectionPath(t)[2]]

\* The list of a section: "alternatives" in the subway section, "top" elsewhere.
ListOf(t) ==
    IF t = "subway_station" THEN SectionAt(t).alternatives ELSE SectionAt(t).top

\* handler has returned the full report.
ReportReturned ==
    /\ pc = "done"
    /\ response.statusCode = 200
    /\ "summary" \in DOMAIN Loads(response.body)

\* The sections a place type's own provider responses can produce, whatever
\* the other categories' queries did.
OwnSections(t) ==
    {SectionOf(t, NormalizeAll(r), n) :
        r \in {ProviderPage(t, 1), ProviderPage(t, 1) \o ProviderPage(t, 2)}
              \cup (IF t \in {"pharmacy", "subway_station"} THEN {OddPage} ELSE {}),
        n \in {None, find_nearest_place(<<"ok", [results |-> ProviderPage(t, 1)]>>)}}

\* The report changed in this step (it is an empty dict until it is set up).
ReportChanged == IF "ok" \in DOMAIN insights THEN insights' # insights ELSE TRUE

C1_Step ==
    /\ raised' # raised => pc' \in {"gi_build", "gi_nearest"}
    /\ ReportChanged =>
         \A t \in PlaceTypes :
            /\ Stored(t) => Stored(t)' /\ SectionAt(t)' = SectionAt(t)
            /\ (~Stored(t) /\ Stored(t)') =>
                  IF t \in raised
                  THEN /\ SectionAt(t)'.count = 0
                       /\ ListOf(t)' = <<>>
                       /\ insights'.ok = TRUE
                  ELSE SectionAt(t)' \in OwnSections(t)

\* C1 (amended): a category whose proximity query raised gets a section with
\* count 0 and an empty list ("top"; "alternatives" for subway_station), the
\* report keeps ok = true and the aggregation goes on; every other category's
\* section is one its own provider responses produce, and no later step
\* changes or drops a section once stored.
C1_FailedCategoryEmpty == [][C1_Step]_vars

\* C1 witness: the full report is returned with the subway and cafe searches
\* failed and the pharmacies section holding more results than it lists.
C1_Witness ==
    /\ ReportReturned
    /\ Loads(response.body).ok = TRUE
    /\ {"cafe", "subway_station"} \subseteq raised
    /\ SectionAt("subway_station").alternatives = <<>>
    /\ SectionAt("pharmacy").count > TopN

\* C1 as stated: every failed category's section has count 0 and top = [].
C1_Original ==
    \A t \in PlaceTypes :
        (Stored(t) /\ t \in raised) =>
            /\ SectionAt(t).count = 0
            /\ "top" \in DOMAIN SectionAt(t)
            /\ SectionAt(t).top = <<>>

\* No places-provider call has been made: no find_places_nearby call, no
\* provider query, no find_nearest_place call.
NoPlacesCalls ==
    /\ searches = NoCalls
    /\ nearest_calls = NoCalls
    /\ served = <<>>
    /\ pc \notin {"fp_first", "fp_sleep", "fp_next", "gi_nearest", "np_return", "gi_build"}

\* The address of the request body, when the body is a dict.
RequestAddress == Get(request.json[2][2], "address")

\* The request reaches get_neighborhood_insights: a POST with a credential
\* and a body that is a dict with a non-empty address.
ValidPost ==
    /\ request.method = "POST"
    /\ Truthy(request.env_key)
    /\ request.json[1] = "ok"
    /\ request.json[2][1] = "dict"
    /\ Truthy(RequestAddress)

\* The geocoder was called and geocode_address gave None, or the address is
\* one the geocoder cannot resolve.
GeocodingFailed ==
    /\ geocode_calls > 0
    /\ (geo = None \/ RequestAddress \notin Resolvable)

\* C2: whenever geocoding fails, get_neighborhood_insights returns
\* {ok: false, error, query} with the address in error and query equal to the
\* original address, handler sends exactly that, and no places-provider call
\* is made.
C2_GeocodeFailureIsStructured ==
    GeocodingFailed =>
        /\ NoPlacesCalls
        /\ pc \in {"h_dump", "done"}
        /\ DOMAIN result = {"ok", "error", "query"}
        /\ result.ok = FALSE
        /\ Contains(result.error, RequestAddress[2])
        /\ result.query = RequestAddress
        /\ pc = "done" => Loads(response.body) = result

\* C2 witness: handler has answered a request whose (resolvable) address the
\* geocoder failed on.
C2_Witness ==
    /\ pc = "done"
    /\ ValidPost
    /\ RequestAddress \in Resolvable
    /\ geocode_calls = 1
    /\ geo = None
    /\ Loads(response.body).query = Str("addr1")

\* The credential is missing or empty.
NoCredential == request.env_key = None \/ request.env_key = Str("")

\* C3: a POST handled without the credential is answered 500 with ok = false,
\* and no geocode and no places-provider call has been made, whatever the body.
C3_MissingKeyIs500BeforeAnyCall ==
    (request.method = "POST" /\ NoCredential) =>
        /\ geocode_calls = 0
        /\ NoPlacesCalls
        /\ pc \in {"h_start", "done"}
        /\ pc = "done" =>
              /\ response.statusCode = 500
              /\ Loads(response.body).ok = FALSE

\* C3 witness: an otherwise valid POST with an empty credential was answered.
C3_Witness ==
    /\ pc = "done"
    /\ request.method = "POST"
    /\ request.env_key = Str("")
    /\ request.json = <<"ok", Dict([address |-> Str("addr1")])>>
    /\ response.statusCode = 500

\* The parsed body carries no address: it is null, or a dict whose address is
\* missing, null or empty.
BodyWithoutAddress ==
    /\ request.json[1] = "ok"
    /\ \/ request.json[2] = None
       \/ request.json[2][1] = "dict" /\ ~Truthy(RequestAddress)

\* C4 as stated: a POST with the credential whose parsed body carries no
\* address is answered 400 with ok = false and an error mentioning
\* "required", and no geocode or places-provider call is made.
C4_MissingAddressIs400 ==
    (pc = "done" /\ request.method = "POST" /\ ~NoCredential /\ BodyWithoutAddress) =>
        /\ response.statusCode = 400
        /\ Loads(response.body).ok = FALSE
        /\ Loads(response.body).error = Str("Address is required")
        /\ geocode_calls = 0
        /\ NoPlacesCalls

\* The number of results a provider query served (none when it raised).
ServedCount(entry) == IF entry[1] = "raise" THEN 0 ELSE Len(entry[2])

RECURSIVE SumSeq(_)
\* The sum of a sequence of numbers.
SumSeq(q) == IF q = <<>> THEN 0 ELSE q[1] + SumSeq(Tail(q))

\* C5: for every page limit >= 1 and every provider behaviour, one call of
\* find_places_nearby issues at most max_pages provider queries, and returns
\* no more records than the pages of those queries held.
C5_PageCapBoundsQueriesAndResults ==
    /\ fp.max_pages >= 1
    /\ Len(served) <= fp.max_pages
    /\ pc = "fp_done" => Len(ret) <= SumSeq([i \in DOMAIN served |-> ServedCount(served[i])])

\* C5 witness: a call with page limit 2 returned after two full pages.
C5_Witness ==
    /\ pc = "fp_done"
    /\ fp.max_pages = 2
    /\ Len(served) = 2
    /\ Len(ret) = 2 * MaxPageLen

\* The key the ranking is specified by: (rating or 0, rating count or 0).
RankKey(x) ==
    <<IF x.rating = None THEN 0 ELSE x.rating[2],
      IF x.user_ratings_total = None THEN 0 ELSE x.user_ratings_total[2]>>

\* k1 >= k2 in the lexicographic order of pairs.
RankKeyGeq(k1, k2) == k1[1] > k2[1] \/ (k1[1] = k2[1] /\ k1[2] >= k2[2])

\* The entries of a list whose key is k, in the list's order.
WithKey(lst, k) == SelectSeq(lst, LAMBDA x : RankKey(x) = k)

\* out is a permutation of inp, non-increasing in the key, with equal keys in
\* their inp order.
IsStableRanking(inp, out) ==
    /\ Len(out) = Len(inp)
    /\ \A r \in {inp[i] : i \in DOMAIN inp} \cup {out[i] : i \in DOMAIN out} :
         Cardinality({i \in DOMAIN inp : inp[i] = r})
           = Cardinality({i \in DOMAIN out : out[i] = r})
    /\ \A i, j \in DOMAIN out : i < j => RankKeyGeq(RankKey(out[i]), RankKey(out[j]))
    /\ \A i \in DOMAIN inp : WithKey(out, RankKey(inp[i])) = WithKey(inp, RankKey(inp[i]))

\* C6: the ranking of any list of place records is a permutation of it that is
\* non-increasing in (rating or 0, rating count or 0), and records with equal
\* keys keep their input order.
C6_RankingIsStableDescending ==
    pc = "rank_done" => IsStableRanking(ret, locals["sorted"])

\* C6 witness: a ranked list in which two different records with equal keys
\* came in the order f, a behind an unrated record, and the ranking moved them.
C6_Witness ==
    /\ pc = "rank_done"
    /\ Len(ret) = 3
    /\ ret[1].rating = None
    /\ ret[2].name = Str("f")
    /\ ret[3].name = Str("a")
    /\ locals["sorted"][1].name = Str("f")
    /\ locals["sorted"][2].name = Str("a")

\* The record carries the literal tag "shopping_mall" among its categories.
CarriesMallTag(r) ==
    /\ r.types[1] = "list"
    /\ \E i \in DOMAIN r.types[2] : r.types[2][i] = "shopping_mall"

\* The step stores the section of place type t, built from t's own search
\* result (the latest find_places_nearby call, still in ret).
Stores(t) == ~Stored(t) /\ Stored(t)' /\ fp.place_type = t

\* The report's sections change only by a step that stores one from the
\* search result of its own place type.
StoredFromOwnSearch ==
    \A t \in PlaceTypes :
        /\ (~Stored(t) /\ Stored(t)') => fp.place_type = t
        /\ Stored(t) => Stored(t)' /\ SectionAt(t)' = SectionAt(t)

C7_Step ==
    ReportChanged =>
        /\ StoredFromOwnSearch
        /\ Stored("shopping_mall")' =>
              \A i \in DOMAIN SectionAt("shopping_mall")'.top :
                  CarriesMallTag(SectionAt("shopping_mall")'.top[i])
        /\ Stores("shopping_mall") =>
              SectionAt("shopping_mall")'.count
                 = Cardinality({i \in DOMAIN ret : CarriesMallTag(ret[i])})

\* C7: every entry of the shopping_malls section's top carries the tag
\* "shopping_mall", and the section's count is the number of search results
\* carrying it: results without the tag, or without categories, are neither
\* listed nor counted.
C7_MallsAreTagged == [][C7_Step]_vars

\* C7 witness: the report was returned after a mall search of ten results, six
\* of them tagged: count is 6 and top holds five tagged entries.
C7_Witness ==
    /\ ReportReturned
    /\ Loads(response.body).social_life.shopping_malls.count = 6
    /\ Len(Loads(response.body).social_life.shopping_malls.top) = TopN
    /\ \E i \in 1..PageSize : ~CarriesMallTag(NormalizePlace(ProviderPage("shopping_mall", 1)[i]))

\* The size of place type t's result list before truncation: for malls, after
\* the tag filter.
PreTruncationSize(t, lst) ==
    IF t = "shopping_mall"
    THEN Cardinality({i \in DOMAIN lst : CarriesMallTag(lst[i])})
    ELSE Len(lst)

Min(a, b) == IF a < b THEN a ELSE b

C8_Step ==
    ReportChanged =>
        /\ StoredFromOwnSearch
        /\ \A t \in PlaceTypes :
              Stores(t) =>
                  /\ SectionAt(t)'.count = PreTruncationSize(t, ret)
                  /\ Len(ListOf(t)') = Min(TopN, PreTruncationSize(t, ret))

\* C8: every section's count is the size of its category's result list before
\* truncation to top_n (for malls after the tag filter), while its list holds
\* min(top_n, count) entries: count is not the truncated length.
C8_CountIsPreTruncation == [][C8_Step]_vars

\* C8 witness: the report was returned with ten cafes counted and five listed,
\* and ten subway stations counted and five listed.
C8_Witness ==
    /\ ReportReturned
    /\ Loads(response.body).social_life.cafes.count = 2 * PageSize
    /\ Len(Loads(response.body).social_life.cafes.top) = TopN
    /\ Loads(response.body).transport.subway.count = 2 * PageSize
    /\ Len(Loads(response.body).transport.subway.alternatives) = TopN

\* request.get_json() is reached and raises.
GetJsonRaises ==
    /\ request.method = "POST"
    /\ ~NoCredential
    /\ request.json[1] = "raise"

\* handler answered with a 5xx status, ok = false and the message as error.
Answered5xx(message) ==
    /\ response.statusCode >= 500
    /\ response.statusCode <= 599
    /\ Loads(response.body).ok = FALSE
    /\ Loads(response.body).error = message

C9_Step ==
    /\ exc' # exc => pc' = "h_except"
    /\ pc = "h_except" => pc' = "done" /\ Answered5xx(exc)'
    /\ (pc = "h_start" /\ GetJsonRaises) =>
          /\ pc' = "done"
          /\ response'.statusCode = 400
          /\ Loads(response'.body) = [ok |-> FALSE, error |-> Str("Invalid JSON")]

\* C9 (amended): handler never raises past its boundary.  A failure of
\* request.get_json() is answered 400 with the fixed error "Invalid JSON";
\* every other exception that leaves the code handler runs (reading the
\* parsed body, the aggregation) is answered with a 5xx status, ok = false
\* and the exception's message as error.
C9_ExceptionsAnswered == [][C9_Step]_vars

\* C9 witness: the aggregation raised (sorted() on mixed-type ratings, after
\* the cafe search had failed) and handler answered 500 with the message.
C9_Witness ==
    /\ pc = "done"
    /\ exc = TypeErrorMessage
    /\ "cafe" \in raised
    /\ response.statusCode = 500
    /\ Loads(response.body).error = TypeErrorMessage

\* C9 as stated: every failure raised while handler runs, in reading the
\* request or in the aggregation, is answered with a 5xx status, ok = false
\* and the exception's message.
C9_Original ==
    (pc = "done" /\ (GetJsonRaises \/ exc # None)) =>
        /\ response.statusCode >= 500
        /\ Loads(response.body).ok = FALSE
        /\ (exc # None => Loads(response.body).error = exc)

\* A find_places_nearby call is under way.
Searching == pc \in {"fp_first", "fp_sleep", "fp_next"}

\* The summary has been built.
SummaryBuilt == "summary" \in DOMAIN insights /\ "headline" \in DOMAIN insights.summary

\* C10: the geocode call has completed, with a result, before any
\* places-provider call is issued; and the summary is built only after all
\* eight proximity searches and both nearest-of-type searches have returned.
C10_GeocodeFirstSummaryLast ==
    /\ (Searching \/ pc \in {"gi_nearest", "np_return"} \/ searches # NoCalls
          \/ nearest_calls # NoCalls
          \/ served # <<>>)
         => geocode_calls = 1 /\ Truthy(geo)
    /\ SummaryBuilt =>
          /\ \A t \in PlaceTypes : searches[t] = 1 /\ Stored(t)
          /\ ~Searching
          /\ pc \notin {"gi_search", "gi_nearest", "np_return", "gi_build"}
          /\ nearest_calls =
                [t \in PlaceTypes |-> IF t \in {"hospital", "subway_station"} THEN 1 ELSE 0]

\* C10 witness: the summary was built in a run whose hospital search and whose
\* subway nearest-of-type search both failed.
C10_Witness ==
    /\ SummaryBuilt
    /\ pc = "h_dump"
    /\ "hospital" \in raised
    /\ insights.transport.subway.nearest = None
    /\ insights.summary.highlights.nearest_subway = None

\* The run of get_neighborhood_insights is under way.
Aggregating ==
    pc \in {"gi_client", "gi_geocode", "gi_search", "fp_first", "fp_sleep",
            "fp_next", "gi_nearest", "np_return", "gi_build", "gi_summary"}

\* The nearest-of-type calls of a finished collection: one each for hospital
\* and subway_station.
NearestPlan ==
    [t \in PlaceTypes |-> IF t \in {"hospital", "subway_station"} THEN 1 ELSE 0]

\* An upper bound on the places-provider calls made so far: page_limit for
\* each find_places_nearby call and one for each find_nearest_place call.
ProviderCallsAtMost ==
    SumSeq([i \in DOMAIN Categories |->
              searches[Categories[i]] * DefaultMaxPages + nearest_calls[Categories[i]]])

\* The categories are searched in plan order, each at most once, and each
\* search makes at most page_limit provider queries.
SearchedOnceInOrder ==
    /\ geocode_calls <= 1
    /\ \A i \in DOMAIN Categories :
          /\ searches[Categories[i]] <= 1
          /\ nearest_calls[Categories[i]] <= NearestPlan[Categories[i]]
          /\ nearest_calls[Categories[i]] <= searches[Categories[i]]
          /\ (i > 1 /\ searches[Categories[i]] = 1) => searches[Categories[i - 1]] = 1
    /\ Len(served) <= DefaultMaxPages
    /\ ProviderCallsAtMost <= Len(Categories) * DefaultMaxPages + 2

C11_Step ==
    /\ SearchedOnceInOrder'
    \* a search returns after 1 to page_limit provider queries
    /\ (Searching /\ ~Searching') => Len(served') \in 1..DefaultMaxPages
    \* the run ends by returning one report ...
    /\ (Aggregating /\ pc' = "h_dump") =>
          \/ /\ ClientRaises(api_key)
             /\ result'.ok = FALSE
             /\ geocode_calls' = 0
             /\ NoPlacesCalls'
          \/ /\ ~ClientRaises(api_key)
             /\ result'.ok = FALSE
             /\ geocode_calls' = 1
             /\ ~Truthy(geo')
             /\ NoPlacesCalls'
          \/ /\ ~ClientRaises(api_key)
             /\ result'.ok = TRUE
             /\ geocode_calls' = 1
             /\ Truthy(geo')
             /\ \A t \in PlaceTypes : searches'[t] = 1
             /\ nearest_calls' = NearestPlan
    \* ... or by an exception out of the ranking, without one
    /\ (Aggregating /\ ~Aggregating' /\ pc' # "h_dump") =>
          /\ pc = "gi_build"
          /\ pc' = "h_except"
          /\ exc' = TypeErrorMessage
          /\ result' = None
          /\ geocode_calls' = 1
    \* the report is not replaced once returned
    /\ pc = "h_dump" => pc' = "done" /\ result' = result
    /\ (Aggregating /\ Aggregating') => result' = None

RECURSIVE PagesOf(_)
\* The results of the pages a sequence of provider queries served, in the
\* order fetched.
PagesOf(q) ==
    IF q = <<>> THEN <<>>
    ELSE (IF q[1][1] = "page" THEN q[1][2] ELSE <<>>) \o PagesOf(Tail(q))

\* One of the provider queries of the search raised.
SomeQueryRaised(q) == \E i \in DOMAIN q : q[i][1] = "raise"

\* The step issues a provider query of the search under way.
IssuesQuery == Searching /\ Len(served') = Len(served) + 1

C12_Step ==
    /\ served' # served => IssuesQuery /\ pc \in {"fp_first", "fp_next"}
    /\ (IssuesQuery /\ pc = "fp_first") => served = <<>>
    \* a follow-up query: the latest response carried a token, the cap is not
    \* reached, the delay has passed and the token is that response's
    /\ (IssuesQuery /\ pc = "fp_next") =>
          /\ served[Len(served)] = <<"page", GetOr(fp.response, "results", <<>>)>>
          /\ "next_page_token" \in DOMAIN fp.response
          /\ Len(served) < fp.max_pages
          /\ fp.delayed
          /\ fp.page_token = fp.response["next_page_token"]
    /\ pc' = "fp_next" => pc = "fp_sleep" /\ served' = served
    /\ pc' = "fp_sleep" => ~fp'.delayed
    \* accumulation in arrival order
    /\ pc' \in {"fp_sleep", "fp_next"} => fp'.all_places = PagesOf(served')
    /\ (IssuesQuery /\ ~Searching' /\ ~SomeQueryRaised(served')) =>
          ret' = NormalizeAll(PagesOf(served'))

\* C12: in find_places_nearby a follow-up query is issued only when the most
\* recent response carried a continuation token and fewer than max_pages
\* queries have been made; it comes after the pagination delay and passes the
\* token of the immediately preceding response; the pages are accumulated in
\* arrival order, and the list returned is the (normalised) concatenation of
\* the pages' results in the order fetched.
C12_PaginationInArrivalOrder == [][C12_Step]_vars

\* C12 witness: a call with page limit 3 returned after three pages of
\* different contents, the records of the first page ahead of the later ones.
C12_Witness ==
    /\ pc = "fp_done"
    /\ fp.max_pages = 3
    /\ served = << <<"page", <<Catalogue[1]>>>>,
                   <<"page", <<Catalogue[10], Catalogue[1]>>>>,
                   <<"page", <<Catalogue[10]>>>> >>
    /\ ret = NormalizeAll(<<Catalogue[1], Catalogue[10], Catalogue[1], Catalogue[10]>>)

\* C13: when a provider query of a find_places_nearby call raises, the first
\* or a continuation query, the call ends there: it returns the empty list,
\* whatever the pages fetched before held, and raises nothing.
C13_SearchAllOrNothing ==
    SomeQueryRaised(served) =>
        /\ pc = "fp_done"
        /\ served[Len(served)] = <<"raise">>
        /\ ret = <<>>
        /\ exc = None
        /\ fp.place_type \in raised

\* C13 witness: the continuation query raised after a first page of two
\* results had been fetched, and the call returned the empty list.
C13_Witness ==
    /\ pc = "fp_done"
    /\ served = << <<"page", <<Catalogue[1], Catalogue[10]>>>>, <<"raise">> >>
    /\ ret = <<>>

\* The place types whose section is ranked.
RankedTypes == {"cafe", "shopping_mall", "park", "gym", "school", "hospital"}

\* The raw provider results of the latest search, in arrival order (none when
\* a query of it raised).
RawResults == IF SomeQueryRaised(served) THEN <<>> ELSE PagesOf(served)

\* The positions of the latest search's result that place type t ranks: for
\* malls those carrying the tag, otherwise all.
Candidates(t) ==
    {p \in DOMAIN ret : t # "shopping_mall" \/ CarriesMallTag(ret[p])}

\* k1 > k2 in the lexicographic order of pairs.
RankKeyGt(k1, k2) == k1[1] > k2[1] \/ (k1[1] = k2[1] /\ k1[2] > k2[2])

\* The place in the ranking of the record at position p: one more than the
\* number of candidates with a greater key, or an equal key and an earlier
\* position.
RankPos(t, p) ==
    1 + Cardinality({q \in Candidates(t) :
                        \/ RankKeyGt(RankKey(ret[q]), RankKey(ret[p]))
                        \/ RankKey(ret[q]) = RankKey(ret[p]) /\ q < p})

\* A value the provider left out or sent as null.
Absent(place, k) == k \notin DOMAIN place \/ place[k] = None

\* The record is the raw result with its rating and rating count as the
\* provider sent them, absent where they were absent.
KeepsAbsent(record, place) ==
    /\ record.rating = (IF Absent(place, "rating") THEN None ELSE place["rating"])
    /\ record.user_ratings_total =
          (IF Absent(place, "user_ratings_total") THEN None
           ELSE place["user_ratings_total"])

C14_Step ==
    /\ ReportChanged =>
          /\ StoredFromOwnSearch
          /\ \A t \in RankedTypes :
                Stores(t) =>
                    /\ Len(ret) = Len(RawResults)
                    /\ Len(SectionAt(t)'.top) = Min(TopN, Cardinality(Candidates(t)))
                    /\ Len(SectionAt(t)'.top) <= 5
                    /\ \A p \in Candidates(t) :
                          RankPos(t, p) <= TopN =>
                              /\ SectionAt(t)'.top[RankPos(t, p)] = ret[p]
                              /\ KeepsAbsent(SectionAt(t)'.top[RankPos(t, p)],
                                             RawResults[p])
    /\ (pc = "h_dump" /\ "summary" \in DOMAIN result) =>
          Loads(response'.body) = insights

\* C14: the top list of each ranked section (cafes, shopping_malls, parks,
\* gyms, schools, hospitals) of the report is the first min(top_n, n) entries
\* of the category's n records (for malls, those carrying the tag) in ranked
\* order: descending key, equal keys in arrival order.  Its length never
\* exceeds top_n = 5, and each entry is the normalised record itself: a rating
\* or rating count the provider left out is absent in it, not zero.
C14_TopIsRankedPrefix == [][C14_Step]_vars

\* C14 witness: the report lists five of ten parks, and all five cafes with
\* the unrated "g" (rating absent, 7 ratings) ahead of "e" (rating 0).
C14_Witness ==
    /\ ReportReturned
    /\ Loads(response.body).social_life.parks.count = 2 * PageSize
    /\ Len(Loads(response.body).social_life.parks.top) = TopN
    /\ Loads(response.body).social_life.cafes.count = TopN
    /\ Loads(response.body).social_life.cafes.top[4].name = Str("g")
    /\ Loads(response.body).social_life.cafes.top[4].rating = None
    /\ Loads(response.body).social_life.cafes.top[5].rating = Num(0)

\* The place types whose section lists the search result as it came.
UnrankedTypes == {"pharmacy", "subway_station"}

C15_Step ==
    ReportChanged =>
        /\ StoredFromOwnSearch
        /\ \A t \in UnrankedTypes :
              Stores(t) =>
                  /\ Len(ret) = Len(RawResults)
                  /\ Len(ListOf(t)') = Min(TopN, Len(RawResults))
                  /\ \A i \in DOMAIN ListOf(t)' :
                        /\ ListOf(t)'[i] = ret[i]
                        /\ ListOf(t)'[i].name = Get(RawResults[i], "name")
                        /\ KeepsAbsent(ListOf(t)'[i], RawResults[i])

\* C15: the pharmacies section's top and the subway section's alternatives
\* are not ranked: each is the first min(top_n, n) records of the category's
\* search result in the order the provider sent them, whatever their ratings.
C15_UnrankedInProviderOrder == [][C15_Step]_vars

\* C15 witness: the report lists the pharmacies d, e, f, g, h as they came,
\* the best rated "f" third, and the two subway results of a page whose
\* ratings sorted() could not order.
C15_Witness ==
    /\ ReportReturned
    /\ Len(Loads(response.body).family_life.pharmacies.top) = TopN
    /\ Loads(response.body).family_life.pharmacies.top[1].name = Str("d")
    /\ Loads(response.body).family_life.pharmacies.top[1].rating = Num(2)
    /\ Loads(response.body).family_life.pharmacies.top[3].name = Str("f")
    /\ Loads(response.body).family_life.pharmacies.top[3].rating = Num(4)
    /\ Loads(response.body).transport.subway.count = 2
    /\ Loads(response.body).transport.subway.alternatives[1].rating = Str("4.5")

\* The names of the first min(3, n) entries of a section's top, in its order.
NamesOfFirstThree(top) == [i \in 1..Min(3, Len(top)) |-> top[i].name]

\* The name of a nearest-of-type result, absent when the result is.
NameOfNearest(found) == IF found = None THEN None ELSE found[2].name

C16_Step ==
    \* the sections' nearest is the name of the nearest-of-type result
    /\ ReportChanged =>
          \A t \in {"hospital", "subway_station"} :
              Stores(t) => SectionAt(t)'.nearest = NameOfNearest(nearest)
    \* the highlights repeat the sections
    /\ pc = "gi_summary" =>
          LET h == insights'.summary.highlights IN
          /\ pc' = "h_dump"
          /\ result' = insights'
          /\ DOMAIN h = {"cafes_top", "schools_top", "malls_top",
                         "nearest_hospital", "nearest_subway"}
          /\ h.cafes_top = NamesOfFirstThree(SectionAt("cafe").top)
          /\ Len(h.cafes_top) = Min(3, SectionAt("cafe").count)
          /\ h.schools_top = NamesOfFirstThree(SectionAt("school").top)
          /\ Len(h.schools_top) = Min(3, SectionAt("school").count)
          /\ h.malls_top = NamesOfFirstThree(SectionAt("shopping_mall").top)
          /\ Len(h.malls_top) = Min(3, SectionAt("shopping_mall").count)
          /\ h.nearest_hospital = SectionAt("hospital").nearest
          /\ h.nearest_subway = SectionAt("subway_station").nearest
          /\ h.nearest_subway = NameOfNearest(nearest)
          /\ \A t \in PlaceTypes : SectionAt(t)' = SectionAt(t)

\* C16: in the report, cafes_top, schools_top and malls_top are the names of
\* the first min(3, n) entries of the cafes, schools and shopping_malls
\* sections' ranked lists, in the same order, and nearest_hospital and
\* nearest_subway are the name of the hospital and subway nearest-of-type
\* result, absent when that search returned absent; building the summary
\* changes no section.
C16_HighlightsFollowSections == [][C16_Step]_vars

\* C16 witness: the report's highlights name the cafes c, f, d, start the
\* schools with a place without a name, and carry the nearest subway station
\* but no nearest hospital.
C16_Witness ==
    /\ ReportReturned
    /\ Loads(response.body).summary.highlights.cafes_top = <<Str("c"), Str("f"), Str("d")>>
    /\ Len(Loads(response.body).summary.highlights.schools_top) = 3
    /\ Loads(response.body).summary.highlights.schools_top[1] = None
    /\ Loads(response.body).summary.highlights.malls_top = <<>>
    /\ Loads(response.body).summary.highlights.nearest_hospital = None
    /\ Loads(response.body).family_life.hospitals.count = PageSize
    /\ Loads(response.body).summary.highlights.nearest_subway = Str("f")

\* The headline sentence for an address and six counts, as its parts.
HeadlineText(formatted, cafes, parks, gyms, schools, hospitals, malls) ==
    <<formatted, ": ", ToString(cafes), " cafes, ", ToString(parks), " parks, ",
      ToString(gyms), " gyms, ", ToString(schools), " schools, ",
      ToString(hospitals), " hospitals, ", ToString(malls), " malls nearby.">>

C17_Step ==
    pc = "gi_summary" =>
        /\ insights'.summary.headline[2] =
              HeadlineText(insights.address[2],
                           SectionAt("cafe").count, SectionAt("park").count,
                           SectionAt("gym").count, SectionAt("school").count,
                           SectionAt("hospital").count,
                           SectionAt("shopping_mall").count)
        /\ \A t \in PlaceTypes :
              /\ SectionAt(t)' = SectionAt(t)
              /\ t \in raised => SectionAt(t).count = 0
        /\ result' = insights'

\* C17: the counts in the summary headline for cafes, parks, gyms, schools,
\* hospitals and malls are the count fields of the corresponding sections of
\* the same report (for malls the count after the tag filter), also when a
\* count exceeds top_n and when it is 0 because the category's query failed.
C17_HeadlineCountsAreSectionCounts == [][C17_Step]_vars

\* C17 witness: the report's headline counts 10 cafes (five listed), 0 parks
\* after a failed park search, and 6 malls of the ten places searched.
C17_Witness ==
    /\ ReportReturned
    /\ "park" \in raised
    /\ Len(Loads(response.body).social_life.cafes.top) = TopN
    /\ Loads(response.body).social_life.shopping_malls.count = 6
    /\ Loads(response.body).summary.headline =
          FStr(<<"formatted addr1", ": ", "10", " cafes, ", "0", " parks, ",
                 "5", " gyms, ", "5", " schools, ", "10", " hospitals, ",
                 "6", " malls nearby.">>)

\* The distance-ranked query raised, or its response holds no result.
NearestQueryEmpty(outcome) ==
    \/ outcome[1] = "raise"
    \/ "results" \notin DOMAIN outcome[2]
    \/ outcome[2].results = <<>>

C18_Step ==
    \* the call issues one query and touches nothing else
    /\ pc = "gi_nearest" =>
          /\ pc' = "np_return"
          /\ nearest_calls' =
                [nearest_calls EXCEPT ![Categories[cat]] = nearest_calls[Categories[cat]] + 1]
          /\ UNCHANGED <<insights, served, exc, ret>>
    \* it returns the first result, or absent; no second query, no exception
    /\ pc = "np_return" =>
          /\ pc' = "gi_build"
          /\ UNCHANGED <<insights, served, ret, nearest_calls>>
          /\ exc' = None
          /\ IF NearestQueryEmpty(np[2].response)
             THEN nearest' = None
             ELSE /\ nearest' # None
                  /\ nearest'[2].name = Get(np[2].response[2].results[1], "name")
                  /\ nearest'[2].rating = Get(np[2].response[2].results[1], "rating")
    \* a failed or empty nearest-of-type search leaves the listing as it is
    /\ ReportChanged =>
          /\ StoredFromOwnSearch
          /\ (Stores("hospital") /\ nearest = None) =>
                /\ SectionAt("hospital")'.nearest = None
                /\ SectionAt("hospital")'.count = Len(ret)
                /\ Len(SectionAt("hospital")'.top) = Min(TopN, Len(ret))
                /\ \A p \in DOMAIN ret :
                      RankPos("hospital", p) <= TopN =>
                          SectionAt("hospital")'.top[RankPos("hospital", p)] = ret[p]
          /\ (Stores("subway_station") /\ nearest = None) =>
                /\ SectionAt("subway_station")'.nearest = None
                /\ SectionAt("subway_station")'.count = Len(ret)
                /\ SectionAt("subway_station")'.alternatives =
                      [i \in 1..Min(TopN, Len(ret)) |-> ret[i]]

\* C18: find_nearest_place issues exactly one distance-ranked provider query
\* and returns (the name and rating of) the first result of the response, or
\* absent when the response has no result or the query raised; it raises
\* nothing.  A failed or empty nearest-of-type search leaves the count and the
\* list (top of hospitals, alternatives of subway) of its category's section
\* as the proximity search gives them, and every other section unchanged.
C18_NearestFirstOrAbsent == [][C18_Step]_vars

\* C18 witness: the report was returned after the hospital nearest-of-type
\* search gave nothing while the hospital search itself found ten places, and
\* with the nearest subway station found.
C18_Witness ==
    /\ ReportReturned
    /\ "hospital" \notin raised
    /\ Loads(response.body).family_life.hospitals.nearest = None
    /\ Loads(response.body).family_life.hospitals.count = 2 * PageSize
    /\ Len(Loads(response.body).family_life.hospitals.top) = TopN
    /\ Loads(response.body).transport.subway.nearest = Str("f")
    /\ nearest_calls = NearestPlan

\* handler answered with this status and error message, ok = false.
Refused(status, message) ==
    /\ response.statusCode = status
    /\ Loads(response.body) = [ok |-> FALSE, error |-> message]

\* C19: a valid POST whose geocoding fails is answered with status 200 and the
\* structured failure {ok: false, error, query}; a status other than 200 is
\* given only for a wrong method (405), a missing credential (500), invalid
\* JSON or a missing address (400), and an exception that reached handler's
\* except clause (500).
C19_GeocodeFailureIs200 ==
    pc = "done" =>
        /\ (ValidPost /\ geocode_calls = 1 /\ geo = None) =>
              /\ response.statusCode = 200
              /\ DOMAIN Loads(response.body) = {"ok", "error", "query"}
              /\ Loads(response.body).ok = FALSE
              /\ Loads(response.body).query = RequestAddress
        /\ response.statusCode # 200 =>
              \/ /\ request.method \notin {"OPTIONS", "POST"}
                 /\ Refused(405, Str("Method not allowed. Use POST."))
              \/ /\ request.method = "POST"
                 /\ NoCredential
                 /\ Refused(500, Str("GOOGLE_MAPS_API_KEY not set"))
              \/ /\ GetJsonRaises
                 /\ Refused(400, Str("Invalid JSON"))
              \/ /\ request.method = "POST"
                 /\ ~NoCredential
                 /\ request.json[1] = "ok"
                 /\ request.json[2][1] = "dict"
                 /\ ~Truthy(RequestAddress)
                 /\ Refused(400, Str("Address is required"))
              \/ /\ exc # None
                 /\ Refused(500, exc)

\* C19 witness: a valid POST for an address the geocoder does not know was
\* answered 200 with ok = false and the address as query.
C19_Witness ==
    /\ pc = "done"
    /\ ValidPost
    /\ RequestAddress = Str("addr2")
    /\ geocode_calls = 1
    /\ geo = None
    /\ response.statusCode = 200
    /\ Loads(response.body).ok = FALSE
    /\ Loads(response.body).query = Str("addr2")

====
